---------------------------- MODULE Spec2Model ----------------------------
(***************************************************************************)
(* Model of the MimiVerse Rust core: the dependency graph (cascade.rs),    *)
(* the file index (file_indexer.rs) and the commands of main.rs.           *)
(*                                                                         *)
(* Strings are sequences of one-character strings, so that substring       *)
(* tests, lower-casing, path joining and suffix probing are computed the   *)
(* way the code computes them.                                             *)
(***************************************************************************)
EXTENDS Integers, Sequences, FiniteSets, TLC

VARIABLES
    disk,            \* the filesystem: path -> [utf8, lines] for every regular file
    workspace_path,  \* AppState.workspace_path
    files,           \* FileIndex.files: path -> FileInfo
    content_index,   \* FileIndex.content_index: word -> Seq(path)
    total_lines,     \* FileIndex.total_lines
    dependencies,    \* CodeGraph.dependencies: file -> set of targets
    dependents,      \* CodeGraph.dependents: target -> set of files
    symbols,         \* CodeGraph.symbols: name -> Seq(SymbolInfo)
    result,          \* what the last command returned
    lastPass,        \* log of the last completed index pass
    prevPass,        \* log of the completed index pass before it
    edits,           \* number of filesystem changes so far
    passes,          \* number of open_workspace calls so far
    file_path,       \* get_impact_scope: argument
    max_depth,       \* get_impact_scope: argument
    affected,        \* get_impact_scope: local
    to_process,      \* get_impact_scope: local (rest of the frontier in the for loop)
    next,            \* get_impact_scope: local
    depth,           \* get_impact_scope: local
    pc,              \* get_impact_scope: position
    expansions,      \* get_impact_scope: how often each node's dependents were read
    query,           \* search: argument
    matches,         \* search: returned list
    mutex,           \* AppState's Mutex of file_index and of code_graph: the task holding it, or 0
    task,            \* each command in flight: its name, argument, position and locals
    started          \* number of commands invoked so far

vars == <<disk, workspace_path, files, content_index, total_lines, dependencies,
          dependents, symbols, result, lastPass, prevPass, edits, passes,
          file_path, max_depth, affected, to_process, next, depth, pc, expansions,
          query, matches, mutex, task, started>>

indexVars == <<files, content_index, total_lines>>
graphVars == <<dependencies, dependents, symbols>>
scopeVars == <<file_path, max_depth, affected, to_process, next, depth, pc, expansions>>
searchVars == <<query, matches>>
concVars == <<mutex, task, started>>

-----------------------------------------------------------------------------
(* Bounds of the model *)

MaxEdits == 2

MaxPasses == 3

MaxDepth == 5

\* maps of up to this many entries are iterated in every order
MaxPermuted == 3

MaxCommands == 3

\* the number of files of the large workspace
BigCount == 52

-----------------------------------------------------------------------------
(* Generic helpers *)

Min(S) == CHOOSE x \in S : \A y \in S : x <= y

Max(S) == CHOOSE x \in S : \A y \in S : x >= y

Range(s) == {s[i] : i \in 1..Len(s)}

EmptyMap == [x \in {} |-> {}]

\* HashMap::insert: the entry for k is replaced
MapInsert(m, k, v) == (k :> v) @@ m

\* all orders in which the elements of a finite set can be visited
RECURSIVE Perms(_)
Perms(S) ==
    IF S = {} THEN {<<>>}
    ELSE UNION {{<<x>> \o s : s \in Perms(S \ {x})} : x \in S}

\* a finite set as a sequence, in one fixed order
RECURSIVE SetToSeq(_)
SetToSeq(S) ==
    IF S = {} THEN <<>>
    ELSE LET x == CHOOSE y \in S : TRUE IN <<x>> \o SetToSeq(S \ {x})

Reverse(s) == [i \in 1..Len(s) |-> s[Len(s) + 1 - i]]

RECURSIVE SumSeq(_)
SumSeq(s) ==
    IF s = <<>> THEN 0
    ELSE IF Len(s) = 1 THEN s[1]
    ELSE LET half == Len(s) \div 2
         IN SumSeq(SubSeq(s, 1, half)) + SumSeq(SubSeq(s, half + 1, Len(s)))

-----------------------------------------------------------------------------
(* str: the string operations the code uses *)

UpperChars == <<"A","B","C","D","E","F","G","H","I","J","K","L","M",
                "N","O","P","Q","R","S","T","U","V","W","X","Y","Z">>

LowerChars == <<"a","b","c","d","e","f","g","h","i","j","k","l","m",
                "n","o","p","q","r","s","t","u","v","w","x","y","z">>

DigitChars == <<"0","1","2","3","4","5","6","7","8","9">>

AlphanumericChars == Range(UpperChars) \cup Range(LowerChars) \cup Range(DigitChars)

\* the characters of the model's texts for which char::is_whitespace holds
WhitespaceChars == {" "}

LowerOf == [c \in Range(UpperChars) |-> LowerChars[CHOOSE i \in 1..26 : UpperChars[i] = c]]

to_lowercase_char(c) == IF c \in DOMAIN LowerOf THEN LowerOf[c] ELSE c

to_lowercase(s) == [i \in 1..Len(s) |-> to_lowercase_char(s[i])]

\* p occurs in s at position i (1-based); the empty pattern occurs everywhere
occurs_at(s, p, i) == \A j \in 1..Len(p) : s[i + j - 1] = p[j]

starts_with(s, p) == Len(p) <= Len(s) /\ occurs_at(s, p, 1)

Occurrences(s, p) == {i \in 1..(Len(s) - Len(p) + 1) : occurs_at(s, p, i)}

\* str::find: the first occurrence, 0 when there is none
find(s, p) == IF Occurrences(s, p) = {} THEN 0 ELSE Min(Occurrences(s, p))

\* str::rfind
rfind(s, p) == IF Occurrences(s, p) = {} THEN 0 ELSE Max(Occurrences(s, p))

contains(s, p) == \E i \in 1..(Len(s) - Len(p) + 1) : occurs_at(s, p, i)

\* str::trim_matches: strips the leading and trailing characters that are in pat
trim_matches(s, pat) ==
    LET keep == {i \in 1..Len(s) : s[i] \notin pat}
    IN IF keep = {} THEN <<>> ELSE SubSeq(s, Min(keep), Max(keep))

trim(s) == trim_matches(s, WhitespaceChars)

\* chars().take_while(|c| c is in pred).collect()
take_while(s, pred) ==
    LET stop == {i \in 1..Len(s) : s[i] \notin pred}
    IN IF stop = {} THEN s ELSE SubSeq(s, 1, Min(stop) - 1)

\* str::split: the pieces between the separators at the positions at, from the
\* position from on, empty pieces included
RECURSIVE split_at(_, _, _)
split_at(s, at, from) ==
    LET rest == {i \in at : i >= from}
    IN IF rest = {} THEN <<SubSeq(s, from, Len(s))>>
       ELSE <<SubSeq(s, from, Min(rest) - 1)>> \o split_at(s, at, Min(rest) + 1)

\* str::split(sep): sep is the set of separator characters
split(s, sep) == split_at(s, {i \in 1..Len(s) : s[i] \in sep}, 1)

\* str::split_whitespace: the non-empty pieces between runs of whitespace
split_whitespace(s) == SelectSeq(split(s, WhitespaceChars), LAMBDA w : w # <<>>)

\* the strings of a sequence joined end to end
RECURSIVE concat(_)
concat(ss) == IF ss = <<>> THEN <<>> ELSE Head(ss) \o concat(Tail(ss))

-----------------------------------------------------------------------------
(* The filesystem and std::path *)

Slash == <<"/">>

SlashChars == {"/"}

\* the directories; they exist throughout
WorkspaceW == <<"/","w">>

WorkspaceV == <<"/","v">>

Dirs == {Slash, WorkspaceW, WorkspaceV}

PathA == <<"/","w","/","a",".","t","s">>

PathB == <<"/","w","/","b",".","t","s">>

PathC == <<"/","v","/","c",".","j","s">>

PathN == <<"/","v","/","n",".","m","d">>

\* the regular files that may exist
Paths == {PathA, PathB, PathC, PathN}

\* the normal components of a path ("" and "." are skipped by Path::components)
components(path) == SelectSeq(split(path, SlashChars), LAMBDA c : c # <<>> /\ c # <<".">>)

\* Path::file_name().unwrap_or_default(): the last component, none after ".."
file_name(path) ==
    LET cs == components(path)
    IN IF cs = <<>> \/ cs[Len(cs)] = <<".", ".">> THEN <<>> ELSE cs[Len(cs)]

\* Path::extension().unwrap_or(""): what follows the last dot of the file name,
\* nothing when the name has no dot or only a leading one
extension(path) ==
    LET name == file_name(path)
        dot == rfind(name, <<".">>)
    IN IF dot <= 1 THEN <<>> ELSE SubSeq(name, dot + 1, Len(name))

\* Path::parent() of a path that ends in a normal component: None for a bare root
has_parent(path) == components(path) # <<>>

parent(path) ==
    LET i == rfind(path, Slash)
    IN IF i = 0 THEN <<>> ELSE IF i = 1 THEN Slash ELSE SubSeq(path, 1, i - 1)

\* Path::join: pushes the text as it is ("." and ".." are not folded); an absolute
\* argument replaces the base
join(base, rel) ==
    IF rel # <<>> /\ rel[1] = "/" THEN rel
    ELSE IF base = <<>> \/ base[Len(base)] = "/" THEN base \o rel
    ELSE base \o Slash \o rel

\* the path as the kernel walks it: "." stays, ".." goes up, every directory on
\* the way has to exist; Missing when it does not lead anywhere. Directories and
\* files are kept under the path that names them without "." or "..".
Missing == <<"?">>

RECURSIVE walk_components(_, _, _)
walk_components(d, cur, cs) ==
    IF cs = <<>> THEN cur
    ELSE IF cur \notin Dirs THEN Missing
    ELSE IF Head(cs) \in {<<>>, <<".">>} THEN walk_components(d, cur, Tail(cs))
    ELSE IF Head(cs) = <<".", ".">> THEN walk_components(d, parent(cur), Tail(cs))
    ELSE walk_components(d, join(cur, Head(cs)), Tail(cs))

canonical(d, path) ==
    IF path \in Dirs \cup DOMAIN d THEN path
    ELSE IF path = <<>> \/ path[1] # "/" THEN Missing
    ELSE walk_components(d, Slash, split(path, SlashChars))

\* Path::is_dir, Path::is_file, Path::exists (a directory exists as well)
is_dir(d, path) == canonical(d, path) \in Dirs

is_file(d, path) == canonical(d, path) \in DOMAIN d

exists(d, path) == is_dir(d, path) \/ is_file(d, path)

\* fs::read_to_string: fails on a missing file and on bytes that are not UTF-8
can_read(d, path) == is_file(d, path) /\ d[canonical(d, path)].utf8

read_to_string(d, path) == d[canonical(d, path)].lines

\* fs::metadata(path).len(): every line and its newline
metadata_len(d, path) ==
    LET ls == d[canonical(d, path)].lines
    IN SumSeq([i \in 1..Len(ls) |-> Len(ls[i]) + 1])

\* WalkDir::new(root): the root and everything below it, as root-prefixed paths
WalkDir(d, root) ==
    IF is_file(d, root) THEN {root}
    ELSE IF ~is_dir(d, root) THEN {}
    ELSE {root} \cup {p \in Dirs \cup DOMAIN d : starts_with(p, root \o Slash) /\ p # root \o Slash}

\* the orders in which WalkDir may yield them: the root first, its entries in
\* the order the directory happens to list them
WalkOrders(d, root) == {<<root>> \o s : s \in Perms(WalkDir(d, root) \ {root})}

-----------------------------------------------------------------------------
(* file_indexer.rs *)

NodeModules == <<"n","o","d","e","_","m","o","d","u","l","e","s">>

DotGit == <<".","g","i","t">>

Target == <<"t","a","r","g","e","t">>

\* FileIndex::detect_language
detect_language(ext) ==
    CASE ext \in {<<"t","s">>, <<"t","s","x">>} -> "TypeScript"
      [] ext \in {<<"j","s">>, <<"j","s","x">>} -> "JavaScript"
      [] ext \in {<<"r","s">>} -> "Rust"
      [] ext \in {<<"p","y">>} -> "Python"
      [] ext \in {<<"g","o">>} -> "Go"
      [] ext \in {<<"j","a","v","a">>} -> "Java"
      [] ext \in {<<"c">>, <<"h">>} -> "C"
      [] ext \in {<<"c","p","p">>, <<"c","c">>, <<"h","p","p">>} -> "C++"
      [] ext \in {<<"c","s","s">>, <<"s","c","s","s">>, <<"l","e","s","s">>} -> "CSS"
      [] ext \in {<<"h","t","m","l">>, <<"h","t","m">>} -> "HTML"
      [] ext \in {<<"j","s","o","n">>} -> "JSON"
      [] ext \in {<<"y","a","m","l">>, <<"y","m","l">>} -> "YAML"
      [] ext \in {<<"m","d">>} -> "Markdown"
      [] ext \in {<<"s","q","l">>} -> "SQL"
      [] ext \in {<<"s","h">>, <<"b","a","s","h">>} -> "Shell"
      [] OTHER -> "Other"

\* FileIndex::extract_words
extract_words(text) ==
    SelectSeq(split_at(text, {i \in 1..Len(text) : text[i] \notin AlphanumericChars /\ text[i] # "_"}, 1),
              LAMBDA w : Len(w) >= 2)

\* Sha256 of the content: one digest per content
sha256_hex(content) == <<"sha256", content>>

\* FileIndex::index_file (called on walked paths, whose metadata can be read)
index_file(d, path) ==
    LET content == IF can_read(d, path) THEN read_to_string(d, path) ELSE <<>>
    IN [path |-> path,
        name |-> file_name(path),
        extension |-> extension(path),
        size |-> metadata_len(d, path),
        lines |-> Len(content),
        hash |-> sha256_hex(content),
        language |-> detect_language(extension(path))]

\* the files index_directory collects
index_candidates(d, dir) ==
    {p \in WalkDir(d, dir) :
        /\ is_file(d, p)
        /\ ~contains(p, NodeModules)
        /\ ~contains(p, DotGit)
        /\ ~contains(p, Target)}

\* a pass that goes on counting from the total of the pass before
keep_total_lines(self) == self.total_lines

\* self.total_lines = 0: the total the loop starts from
reset_total_lines(self) == 0

\* the loop "for info in indexed" of index_directory on the index self, as the
\* index it leaves: total_lines restarts at 0 and adds up the lines; every word
\* of every name pushes the path once, in the order of the loop; the entry of a
\* path is the last info stored under it
store_indexed(self, indexed) ==
    LET n == Len(indexed)
        words == [i \in 1..n |->
                    LET ws == extract_words(indexed[i].name)
                    IN [j \in 1..Len(ws) |-> to_lowercase(ws[j])]]
        pushes == UNION {{<<i, j>> : j \in 1..Len(words[i])} : i \in 1..n}
        earlier(a, b) == a[1] < b[1] \/ (a[1] = b[1] /\ a[2] < b[2])
        pushed(w) ==
            LET mine == {q \in pushes : words[q[1]][q[2]] = w}
                nth(k) == CHOOSE q \in mine : Cardinality({r \in mine : earlier(r, q)}) = k - 1
            IN [k \in 1..Cardinality(mine) |-> indexed[nth(k)[1]].path]
        entry(w) == IF w \in DOMAIN self.content_index THEN self.content_index[w] ELSE <<>>
        stored == {indexed[i].path : i \in 1..n}
        last(p) == indexed[Max({i \in 1..n : indexed[i].path = p})]
    IN [total_lines |-> reset_total_lines(self) + SumSeq([i \in 1..n |-> indexed[i].lines]),
        content_index |->
            [w \in DOMAIN self.content_index \cup {words[q[1]][q[2]] : q \in pushes} |->
                entry(w) \o pushed(w)],
        files |->
            [p \in DOMAIN self.files \cup stored |->
                IF p \in stored THEN last(p) ELSE self.files[p]]]

\* FileIndex::index_directory on the index self; walk is the sequence WalkDir
\* yields. The value is the index afterwards.
\* index_directory: the list `indexed` that the parallel map over the walk collects
collect_indexed(d, dir, walk) ==
    LET candidates == index_candidates(d, dir)
        found == SelectSeq(walk, LAMBDA p : p \in candidates)
    IN [i \in 1..Len(found) |-> index_file(d, found[i])]

index_directory(self, d, dir, walk) == store_indexed(self, collect_indexed(d, dir, walk))

\* FileIndex::file_count
file_count(fs) == Cardinality(DOMAIN fs)

-----------------------------------------------------------------------------
(* cascade.rs *)

KwImport == <<"i","m","p","o","r","t">>

KwFrom == <<"f","r","o","m">>

KwRequire == <<"r","e","q","u","i","r","e","(">>

KwExport == <<"e","x","p","o","r","t">>

KwFunction == <<"f","u","n","c","t","i","o","n">>

KwClass == <<"c","l","a","s","s">>

KwConst == <<"c","o","n","s","t">>

\* the suffixes resolve_import probes, in order
ProbeSuffixes == <<<<>>, <<".","t","s">>, <<".","t","s","x">>, <<".","j","s">>, <<".","j","s","x">>, <<"/","i","n","d","e","x",".","t","s">>, <<"/","i","n","d","e","x",".","j","s">>>>

\* the extensions analyze_workspace keeps
SourceExtensions == {<<"t","s">>, <<"t","s","x">>, <<"j","s">>, <<"j","s","x">>, <<"r","s">>, <<"p","y">>}

\* the keywords extract_export_name looks for, in order
ExportKeywords == <<KwFunction, KwClass, KwConst, <<"l","e","t">>, <<"v","a","r">>, <<"i","n","t","e","r","f","a","c","e">>, <<"t","y","p","e">>>>

QuoteChars == {"'", "\""}

QuoteOrSemicolonChars == {"'", "\"", ";"}

NameChars == AlphanumericChars \cup {"_"}

\* a resolve_import that also joins a package specifier with the parent directory
resolve_import_joins_packages(d, from_file, import) ==
    IF has_parent(from_file)
    THEN LET resolved == join(parent(from_file), import)
             hits == {i \in 1..Len(ProbeSuffixes) : exists(d, resolved \o ProbeSuffixes[i])}
         IN IF hits # {} THEN resolved \o ProbeSuffixes[Min(hits)] ELSE resolved
    ELSE import

\* CodeGraph::resolve_import
resolve_import(d, from_file, import) ==
    IF starts_with(import, <<".">>) /\ has_parent(from_file)
    THEN LET resolved == join(parent(from_file), import)
             hits == {i \in 1..Len(ProbeSuffixes) : exists(d, resolved \o ProbeSuffixes[i])}
         IN IF hits # {} THEN resolved \o ProbeSuffixes[Min(hits)] ELSE resolved
    ELSE import

\* CodeGraph::extract_export_name; <<>> stands for None
extract_export_name(line) ==
    LET name(k) == take_while(trim(SubSeq(line, find(line, ExportKeywords[k]) + Len(ExportKeywords[k]),
                                          Len(line))),
                              NameChars)
        found == {k \in 1..Len(ExportKeywords) :
                     find(line, ExportKeywords[k]) # 0 /\ name(k) # <<>>}
    IN IF found = {} THEN <<>> ELSE name(Min(found))

\* analyze_file, one line: the targets of its import ... from and require( forms
line_deps(d, path, raw) ==
    LET line == trim(raw)
        from_idx == find(line, KwFrom)
        start == find(line, KwRequire)
        rest == SubSeq(line, start + 8, Len(line))
        end == find(rest, <<")">>)
    IN (IF starts_with(line, KwImport) /\ from_idx # 0
        THEN {resolve_import(d, path,
                  trim_matches(trim(SubSeq(line, from_idx + 4, Len(line))), QuoteOrSemicolonChars))}
        ELSE {})
       \cup
       (IF start # 0 /\ end # 0
        THEN {resolve_import(d, path, trim_matches(SubSeq(rest, 1, end - 1), QuoteChars))}
        ELSE {})

\* analyze_file, one line: the symbol of its export, if it names one
line_symbols(path, raw) ==
    LET line == trim(raw)
    IN IF /\ starts_with(line, KwExport)
          /\ (contains(line, KwFunction) \/ contains(line, KwConst) \/ contains(line, KwClass))
          /\ extract_export_name(line) # <<>>
       THEN <<[name |-> extract_export_name(line),
               kind |-> IF contains(line, KwFunction) THEN "Function"
                        ELSE IF contains(line, KwClass) THEN "Class"
                        ELSE "Variable",
               file |-> path,
               line |-> 0,
               exported |-> TRUE]>>
       ELSE <<>>

\* CodeGraph::analyze_file for a file that can be read: (file_path, deps, symbols)
analyze_file(d, path) ==
    LET content == read_to_string(d, path)
    IN [file |-> path,
        deps |-> UNION {line_deps(d, path, content[i]) : i \in 1..Len(content)},
        syms |-> concat([i \in 1..Len(content) |-> line_symbols(path, content[i])])]

\* the files analyze_workspace collects
analyze_candidates(d, workspace) ==
    {p \in WalkDir(d, workspace) :
        /\ extension(p) \in SourceExtensions
        /\ ~contains(p, NodeModules)
        /\ ~contains(p, DotGit)}

\* self.dependents.entry(dep).or_insert_with(HashSet::new).insert(file)
add_dependent(rev, deps, file) ==
    [k \in DOMAIN rev \cup deps |->
        IF k \in deps THEN (IF k \in DOMAIN rev THEN rev[k] ELSE {}) \cup {file} ELSE rev[k]]

\* a merge that stores a symbol only when the list under its name does not hold it yet
RECURSIVE push_symbols_once(_, _)
push_symbols_once(tab, syms) ==
    IF syms = <<>> THEN tab
    ELSE LET sym == Head(syms)
             old == IF sym.name \in DOMAIN tab THEN tab[sym.name] ELSE <<>>
         IN push_symbols_once(
                MapInsert(tab, sym.name,
                          IF \E n \in 1..Len(old) : old[n] = sym THEN old ELSE Append(old, sym)),
                Tail(syms))

\* self.symbols.entry(sym.name).or_insert_with(Vec::new).push(sym)
RECURSIVE push_symbols(_, _)
push_symbols(tab, syms) ==
    IF syms = <<>> THEN tab
    ELSE LET sym == Head(syms)
             old == IF sym.name \in DOMAIN tab THEN tab[sym.name] ELSE <<>>
         IN push_symbols(MapInsert(tab, sym.name, Append(old, sym)), Tail(syms))

\* the loop "for (file, deps, syms) in results" of analyze_workspace
RECURSIVE merge_results(_, _)
merge_results(g, results) ==
    IF results = <<>> THEN g
    ELSE LET r == Head(results)
         IN merge_results(
                [dependencies |-> MapInsert(g.dependencies, r.file, r.deps),
                 dependents |-> add_dependent(g.dependents, r.deps, r.file),
                 symbols |-> push_symbols(g.symbols, r.syms)],
                Tail(results))

\* an analyze_workspace that gives up the whole batch when one file cannot be read
analyze_workspace_aborts_on_error(self, d, workspace, walk) ==
    LET candidates == analyze_candidates(d, workspace)
        found == SelectSeq(walk, LAMBDA p : p \in candidates)
        results == [i \in 1..Len(found) |-> analyze_file(d, found[i])]
    IN IF \E i \in 1..Len(found) : ~can_read(d, found[i]) THEN self
       ELSE merge_results(self, results)

\* CodeGraph::analyze_workspace on the graph self; walk is the sequence WalkDir
\* yields. The value is the graph afterwards.
\* analyze_workspace: the list `results` that filter_map(analyze_file(..).ok()) collects
collect_results(d, workspace, walk) ==
    LET candidates == analyze_candidates(d, workspace)
        found == SelectSeq(walk, LAMBDA p : p \in candidates)
        readable == SelectSeq(found, LAMBDA p : can_read(d, p))
    IN [i \in 1..Len(readable) |-> analyze_file(d, readable[i])]

analyze_workspace(self, d, workspace, walk) ==
    merge_results(self, collect_results(d, workspace, walk))

\* CodeGraph::get_dependencies
get_dependencies(fwd, f) == IF f \in DOMAIN fwd THEN fwd[f] ELSE {}

\* a get_dependents that answers a path without an entry with the path itself
get_dependents_unknown_is_self(rev, f) == IF f \in DOMAIN rev THEN rev[f] ELSE {f}

\* CodeGraph::get_dependents
get_dependents(rev, f) == IF f \in DOMAIN rev THEN rev[f] ELSE {}

\* CodeGraph::edge_count
RECURSIVE sum_sizes(_, _)
sum_sizes(fwd, ks) ==
    IF ks = {} THEN 0
    ELSE LET k == CHOOSE x \in ks : TRUE
         IN Cardinality(fwd[k]) + sum_sizes(fwd, ks \ {k})

edge_count(fwd) == sum_sizes(fwd, DOMAIN fwd)

\* CodeGraph::find_symbol
find_symbol(tab, name) == IF name \in DOMAIN tab THEN tab[name] ELSE <<>>

-----------------------------------------------------------------------------
(* The contents a file may have *)

LineImportB == <<"i","m","p","o","r","t"," ","{"," ","x"," ","}"," ","f","r","o","m"," ","'",".","/","b","'">>

LineImportA == <<"i","m","p","o","r","t"," ","z"," ","f","r","o","m"," ","'","/","w","/","a",".","t","s","'">>

LineRequire == <<"c","o","n","s","t"," ","r"," ","="," ","r","e","q","u","i","r","e","(","'","r","e","a","c","t","'",")">>

LineExport == <<"e","x","p","o","r","t"," ","f","u","n","c","t","i","o","n"," ","f","(",")"," ","{","}">>

TextImportB == [utf8 |-> TRUE, lines |-> <<LineImportB>>]

TextImportA == [utf8 |-> TRUE, lines |-> <<LineImportA>>]

TextRequireExport == [utf8 |-> TRUE, lines |-> <<LineRequire, LineExport>>]

TextEmpty == [utf8 |-> TRUE, lines |-> <<>>]

Binary == [utf8 |-> FALSE, lines |-> <<<<"#","#">>>>]

\* what each file may be written with
ContentsOf(p) ==
    IF p = PathA THEN {TextImportB, TextRequireExport}
    ELSE IF p = PathB THEN {TextImportA, Binary}
    ELSE IF p = PathC THEN {TextRequireExport}
    ELSE {TextEmpty}

\* a workspace with two files that import each other, and a second workspace
\* with a source file and a non-source file
FullDisk ==
    [p \in Paths |->
        IF p = PathA THEN TextImportB
        ELSE IF p = PathB THEN TextImportA
        ELSE IF p = PathC THEN TextRequireExport
        ELSE TextEmpty]

InitialDisks == {EmptyMap, FullDisk}

\* the paths open_workspace is called with: two directories, a regular file, and
\* a path that does not exist
PathX == <<"/","x">>

Roots == {WorkspaceW, WorkspaceV, PathA, PathX}

-----------------------------------------------------------------------------
(* main.rs *)

None == <<>>

NoPass == [ok |-> FALSE]

NoResult == [cmd |-> "none"]

\* what a completed pass saw and left behind
PassLog(d, path, index, graph) ==
    [ok |-> TRUE,
     root |-> path,
     seen |-> [p \in WalkDir(d, path) \cap DOMAIN d |-> d[p]],
     indexed |-> index_candidates(d, path),
     analyzed |-> {p \in analyze_candidates(d, path) : can_read(d, p)},
     file_count |-> file_count(index.files),
     total_lines |-> index.total_lines,
     edge_count |-> edge_count(graph.dependencies)]

\* the FileIndex and the CodeGraph behind the two mutexes of AppState
FileIndexNow == [total_lines |-> total_lines, content_index |-> content_index, files |-> files]

CodeGraphNow == [dependencies |-> dependencies, dependents |-> dependents, symbols |-> symbols]

\* an open_workspace that stores the path before it looks at it
OpenWorkspaceStoresPathFirst(path) ==
    /\ passes < MaxPasses
    /\ passes' = passes + 1
    /\ workspace_path' = path
    /\ IF ~exists(disk, path) \/ ~is_dir(disk, path)
       THEN /\ result' = [cmd |-> "open_workspace", ok |-> FALSE, err |-> "Invalid workspace path"]
            /\ UNCHANGED <<indexVars, graphVars, lastPass, prevPass>>
       ELSE /\ \E walk \in WalkOrders(disk, path) :
                 \E index \in {index_directory(FileIndexNow, disk, path, walk)} :
                 \E graph \in {analyze_workspace(CodeGraphNow, disk, path, walk)} :
                   /\ files' = index.files
                   /\ content_index' = index.content_index
                   /\ total_lines' = index.total_lines
                   /\ dependencies' = graph.dependencies
                   /\ dependents' = graph.dependents
                   /\ symbols' = graph.symbols
                   /\ result' = [cmd |-> "open_workspace", ok |-> TRUE, path |-> path,
                                 file_count |-> file_count(index.files), indexed |-> TRUE]
                   /\ lastPass' = PassLog(disk, path, index, graph)
            /\ prevPass' = lastPass
    /\ UNCHANGED <<disk, edits, scopeVars, searchVars, concVars>>

\* open_workspace
OpenWorkspace(path) ==
    /\ passes < MaxPasses
    /\ passes' = passes + 1
    /\ IF ~exists(disk, path) \/ ~is_dir(disk, path)
       THEN /\ result' = [cmd |-> "open_workspace", ok |-> FALSE, err |-> "Invalid workspace path"]
            /\ UNCHANGED <<workspace_path, indexVars, graphVars, lastPass, prevPass>>
       ELSE /\ workspace_path' = path
            /\ \E walk \in WalkOrders(disk, path) :
                 \E index \in {index_directory(FileIndexNow, disk, path, walk)} :
                 \E graph \in {analyze_workspace(CodeGraphNow, disk, path, walk)} :
                   /\ files' = index.files
                   /\ content_index' = index.content_index
                   /\ total_lines' = index.total_lines
                   /\ dependencies' = graph.dependencies
                   /\ dependents' = graph.dependents
                   /\ symbols' = graph.symbols
                   /\ result' = [cmd |-> "open_workspace", ok |-> TRUE, path |-> path,
                                 file_count |-> file_count(index.files), indexed |-> TRUE]
                   /\ lastPass' = PassLog(disk, path, index, graph)
            /\ prevPass' = lastPass
    /\ UNCHANGED <<disk, edits, scopeVars, searchVars, concVars>>

-----------------------------------------------------------------------------
(* The environment: files are written and removed between commands *)

WriteFile(p, c) ==
    /\ edits < MaxEdits
    /\ IF p \in DOMAIN disk THEN disk[p] # c ELSE TRUE
    /\ disk' = MapInsert(disk, p, c)
    /\ edits' = edits + 1
    /\ UNCHANGED <<workspace_path, indexVars, graphVars, result, lastPass, prevPass, passes,
                   scopeVars, searchVars, concVars>>

RemoveFile(p) ==
    /\ edits < MaxEdits
    /\ p \in DOMAIN disk
    /\ disk' = [q \in DOMAIN disk \ {p} |-> disk[q]]
    /\ edits' = edits + 1
    /\ UNCHANGED <<workspace_path, indexVars, graphVars, result, lastPass, prevPass, passes,
                   scopeVars, searchVars, concVars>>

-----------------------------------------------------------------------------
(* The specification of the index passes *)

ScopeIdle ==
    /\ file_path = <<>>
    /\ max_depth = 0
    /\ affected = {}
    /\ to_process = <<>>
    /\ next = <<>>
    /\ depth = 0
    /\ pc = "idle"
    /\ expansions = EmptyMap

SearchIdle ==
    /\ query = <<>>
    /\ matches = <<>>

\* the commands main.rs registers run on tauri's thread pool; two of them at a time here
Tasks == {1, 2}

NoTask == [cmd |-> "idle", pc |-> "idle", arg |-> <<>>, pending |-> <<>>]

\* Arc<Mutex<FileIndex>> and Arc<Mutex<CodeGraph>> unlocked, no command running
ConcIdle ==
    /\ mutex = [m \in {"file_index", "code_graph"} |-> 0]
    /\ task = [t \in Tasks |-> NoTask]
    /\ started = 0

\* a FileIndex::new whose line counter does not start at zero
IndexWithLines == [total_lines |-> 1, content_index |-> EmptyMap, files |-> EmptyMap]

\* FileIndex::new
EmptyIndex == [total_lines |-> 0, content_index |-> EmptyMap, files |-> EmptyMap]

\* AppState::default, FileIndex::new, CodeGraph::new
Init ==
    /\ disk \in InitialDisks
    /\ workspace_path = None
    /\ files = EmptyIndex.files
    /\ content_index = EmptyIndex.content_index
    /\ total_lines = EmptyIndex.total_lines
    /\ dependencies = EmptyMap
    /\ dependents = EmptyMap
    /\ symbols = EmptyMap
    /\ result = NoResult
    /\ lastPass = NoPass
    /\ prevPass = NoPass
    /\ edits = 0
    /\ passes = 0
    /\ ScopeIdle
    /\ SearchIdle
    /\ ConcIdle

Next ==
    \/ \E path \in Roots : OpenWorkspace(path)
    \/ \E p \in Paths : \E c \in ContentsOf(p) : WriteFile(p, c)
    \/ \E p \in Paths : RemoveFile(p)

Spec == Init /\ [][Next]_vars

-----------------------------------------------------------------------------
(* Properties of the index passes *)

\* every key the graph mentions
GraphKeys == DOMAIN dependencies \cup DOMAIN dependents \cup UNION {dependencies[g] : g \in DOMAIN dependencies}

\* C1: after any sequence of index passes, dependents_of(f) is exactly the set of
\* files g with f in dependencies_of(g), for every path f: the reverse map is the
\* transpose of the forward map.
C1_ReverseIsTranspose ==
    \A f \in GraphKeys :
        get_dependents(dependents, f) =
            {g \in DOMAIN dependencies : f \in get_dependencies(dependencies, g)}

\* C2: after an index pass the file index holds a record for exactly the files
\* that pass found, and the graph holds forward entries, reverse entries and
\* symbols for exactly the files that pass analyzed; nothing of an earlier pass
\* remains.
C2_ReindexReplacesState ==
    lastPass.ok =>
        /\ DOMAIN files = lastPass.indexed
        /\ DOMAIN dependencies = lastPass.analyzed
        /\ \A k \in DOMAIN dependents :
               dependents[k] = {g \in lastPass.analyzed : k \in dependencies[g]}
        /\ \A n \in DOMAIN symbols : \A i \in 1..Len(symbols[n]) :
               symbols[n][i].file \in lastPass.analyzed

\* two passes in a row over the same root with every file below it unchanged
SameWorkspaceTwice ==
    /\ lastPass.ok
    /\ prevPass.ok
    /\ lastPass.root = prevPass.root
    /\ lastPass.seen = prevPass.seen

\* C3: indexing an unchanged workspace twice in a row gives the same edge_count,
\* file_count and total_lines after the second pass as after the first.
C3_ReindexUnchangedSameCounts ==
    SameWorkspaceTwice =>
        /\ lastPass.edge_count = prevPass.edge_count
        /\ lastPass.file_count = prevPass.file_count
        /\ lastPass.total_lines = prevPass.total_lines

\* an unchanged workspace with lines and edges to count was indexed twice
C3_Witness ==
    /\ SameWorkspaceTwice
    /\ lastPass.total_lines > 0
    /\ lastPass.edge_count > 0
    /\ lastPass.file_count > 1

\* C16: as long as no pass has completed, the graph holds no edge and the index holds no
\* file and no line: edge_count, file_count and total_lines are all 0, whatever was done to
\* the disk and however many open_workspace calls were refused.
C16_NothingCountedBeforeFirstPass ==
    lastPass = NoPass =>
        /\ edge_count(dependencies) = 0
        /\ file_count(files) = 0
        /\ total_lines = 0

\* an open_workspace was refused and files were written, and still no pass has completed
C16_Witness ==
    /\ lastPass = NoPass
    /\ result.cmd = "open_workspace"
    /\ ~result.ok
    /\ edits > 0
    /\ edge_count(dependencies) = 0
    /\ file_count(files) = 0
    /\ total_lines = 0

\* the line counts of the records the index holds, added up
LinesOfRecords ==
    LET held == SetToSeq(DOMAIN files)
    IN SumSeq([i \in 1..Len(held) |-> files[held[i]].lines])

\* C25: after any sequence of index passes, total_lines is the sum of the line counts of
\* the records the index holds, and total_files (file_count) is the number of those
\* records.
C25_TotalsMatchRecords ==
    lastPass.ok =>
        /\ total_lines = LinesOfRecords
        /\ file_count(files) = Cardinality(DOMAIN files)

\* what holds instead: total_lines is the sum over the files of the last pass alone
TotalLinesOfLastPass ==
    lastPass.ok =>
        total_lines = LET seen == SetToSeq(lastPass.indexed)
                      IN SumSeq([i \in 1..Len(seen) |-> files[seen[i]].lines])

\* C12: open_workspace on a root that does not exist or is not a directory
\* fails with the invalid-path error before any work is done: the stored
\* workspace path, the file index and the dependency graph stay as they were.
\* (A call succeeds only on an existing directory; a call that fails has
\* changed none of the three.)
C12_InvalidRootChangesNothing ==
    [][passes' = passes + 1 =>
          /\ result'.cmd = "open_workspace"
          /\ result'.ok => exists(disk, result'.path) /\ is_dir(disk, result'.path)
          /\ ~result'.ok =>
                /\ result'.err = "Invalid workspace path"
                /\ UNCHANGED <<workspace_path, indexVars, graphVars>>]_vars

\* a call failed after an earlier one had filled the index and the graph
C12_Witness ==
    /\ result.cmd = "open_workspace"
    /\ ~result.ok
    /\ workspace_path # None
    /\ DOMAIN files # {}
    /\ DOMAIN dependencies # {}

\* the files below root that cannot be decoded
Undecodable(d, root) == {p \in WalkDir(d, root) \cap DOMAIN d : ~d[p].utf8}

\* what a pass over path has done for the files that can be read, and what it
\* has not done for a file bad that cannot
PassSkipsOnly(path, bad) ==
    /\ result'.cmd = "open_workspace"
    /\ result'.ok
    /\ \A p \in index_candidates(disk, path) \ {bad} :
           p \in DOMAIN files' /\ files'[p] = index_file(disk, p)
    /\ total_lines' =
           SumSeq([i \in 1..Len(SetToSeq(index_candidates(disk, path) \ {bad})) |->
                      Len(disk[SetToSeq(index_candidates(disk, path) \ {bad})[i]].lines)])
    /\ \A p \in analyze_candidates(disk, path) \ Undecodable(disk, path) :
           /\ p \in DOMAIN dependencies'
           /\ dependencies'[p] = analyze_file(disk, p).deps
           /\ \A k \in dependencies'[p] : k \in DOMAIN dependents' /\ p \in dependents'[k]
           /\ \A i \in 1..Len(analyze_file(disk, p).syms) :
                  \E n \in DOMAIN symbols' : \E j \in 1..Len(symbols'[n]) :
                      symbols'[n][j] = analyze_file(disk, p).syms[i]
    /\ bad \in DOMAIN dependencies' => bad \in DOMAIN dependencies
                                        /\ dependencies'[bad] = dependencies[bad]
    /\ \A k \in DOMAIN dependents' :
           bad \in dependents'[k] => k \in DOMAIN dependents /\ bad \in dependents[k]
    /\ \A n \in DOMAIN symbols' :
           Cardinality({j \in 1..Len(symbols'[n]) : symbols'[n][j].file = bad})
             = IF n \in DOMAIN symbols
               THEN Cardinality({j \in 1..Len(symbols[n]) : symbols[n][j].file = bad})
               ELSE 0

\* C13: a file that cannot be read or decoded never aborts the pass: the pass
\* still succeeds, every other candidate file is indexed and merged as if the
\* bad file were not in the batch, and the bad file contributes no forward
\* edges, no reverse edges and no symbols to the graph.
C13_UndecodableFileIsSkipped ==
    [][\A path \in Roots : \A bad \in Undecodable(disk, path) :
          (is_dir(disk, path) /\ OpenWorkspace(path)) => PassSkipsOnly(path, bad)]_vars

\* a pass has read a workspace with a file it cannot decode beside one it can,
\* and the graph holds the edges of the second
C13_Witness ==
    /\ lastPass.ok
    /\ PathB \in DOMAIN lastPass.seen
    /\ ~lastPass.seen[PathB].utf8
    /\ PathA \in lastPass.analyzed
    /\ PathA \in DOMAIN dependencies
    /\ dependencies[PathA] # {}
    /\ PathB \in DOMAIN files

\* the last pass indexed the workspace in which a.ts holds import { x } from './b'
\* and b.ts lies next to it
ImportsSibling ==
    /\ lastPass.ok
    /\ lastPass.root = WorkspaceW
    /\ {PathA, PathB} \subseteq DOMAIN lastPass.seen
    /\ lastPass.seen[PathA] = TextImportB
    /\ lastPass.seen[PathB].utf8

\* C7: when a.ts imports './b' and b.ts exists beside it, the import resolves to
\* the key under which b.ts itself is indexed: the dependencies of a.ts include
\* the key of b.ts and the dependents of b.ts include a.ts.
C7_RelativeImportHitsIndexedKey ==
    ImportsSibling =>
        /\ PathB \in DOMAIN files
        /\ PathB \in DOMAIN dependencies
        /\ PathB \in get_dependencies(dependencies, PathA)
        /\ PathA \in get_dependents(dependents, PathB)

\* the last pass analyzed c.ts holding const r = require('react')
RequiresPackage ==
    /\ lastPass.ok
    /\ PathC \in lastPass.analyzed
    /\ lastPass.seen[PathC] = TextRequireExport

\* C19: a specifier that does not start with '.' is returned by the resolver as it is,
\* whatever is on the disk, and is a node of the graph after the pass: 'react' is among
\* the dependencies of the file that requires it, and that file among the dependents of
\* 'react'.
C19_PackageSpecifierIsGraphNode ==
    RequiresPackage =>
        /\ resolve_import(lastPass.seen, PathC, <<"r","e","a","c","t">>) = <<"r","e","a","c","t">>
        /\ <<"r","e","a","c","t">> \in get_dependencies(dependencies, PathC)
        /\ PathC \in get_dependents(dependents, <<"r","e","a","c","t">>)

\* a pass over a workspace in which c.ts requires 'react' has put the package in the graph
C19_Witness ==
    /\ RequiresPackage
    /\ <<"r","e","a","c","t">> \in DOMAIN dependents
    /\ PathC \in dependents[<<"r","e","a","c","t">>]
    /\ <<"r","e","a","c","t">> \in dependencies[PathC]

-----------------------------------------------------------------------------
(* CodeGraph::get_impact_scope *)

\* the loop "for file in to_process": the value is affected and next afterwards
RECURSIVE scope_frontier(_, _, _, _)
scope_frontier(rev, seen, frontier, nxt) ==
    IF frontier = <<>> THEN [affected |-> seen, next |-> nxt]
    ELSE LET file == Head(frontier)
         IN IF file \notin seen
            THEN scope_frontier(rev, seen \cup {file}, Tail(frontier),
                                IF file \in DOMAIN rev THEN nxt \o SetToSeq(rev[file]) ELSE nxt)
            ELSE scope_frontier(rev, seen, Tail(frontier), nxt)

\* a loop that keeps only the files of the frontier it has just walked
RECURSIVE scope_loop_last_frontier(_, _, _, _, _)
scope_loop_last_frontier(rev, seen, frontier, d, limit) ==
    IF frontier # <<>> /\ d < limit
    THEN LET r == scope_frontier(rev, {}, frontier, <<>>)
         IN scope_loop_last_frontier(rev, r.affected, r.next, d + 1, limit)
    ELSE seen

\* the loop "while !to_process.is_empty() && depth < max_depth"
RECURSIVE scope_loop(_, _, _, _, _)
scope_loop(rev, seen, frontier, d, limit) ==
    IF frontier # <<>> /\ d < limit
    THEN LET r == scope_frontier(rev, seen, frontier, <<>>)
         IN scope_loop(rev, r.affected, r.next, d + 1, limit)
    ELSE seen

\* CodeGraph::get_impact_scope as a function of the reverse map and its arguments
get_impact_scope(rev, f, limit) == scope_loop(rev, {}, <<f>>, 0, limit)

\* The same function step by step. ScopeBegin: the three let mut of the prologue.
ScopeBegin(f, limit) ==
    /\ file_path = f
    /\ max_depth = limit
    /\ affected = {}
    /\ to_process = <<f>>
    /\ next = <<>>
    /\ depth = 0
    /\ pc = "while"
    /\ expansions = EmptyMap

\* the head of the while loop; leaving it returns affected
ScopeWhile ==
    /\ pc = "while"
    /\ IF to_process # <<>> /\ depth < max_depth
       THEN /\ next' = <<>>
            /\ pc' = "for"
       ELSE /\ pc' = "done"
            /\ UNCHANGED next
    /\ UNCHANGED <<file_path, max_depth, affected, to_process, depth, expansions>>
    /\ UNCHANGED <<disk, workspace_path, indexVars, graphVars, result, lastPass, prevPass,
                   edits, passes, searchVars, concVars>>

\* one round of the for loop that reads the dependents of every file it meets
ScopeForAlwaysExpands ==
    /\ pc = "for"
    /\ IF to_process = <<>>
       THEN /\ to_process' = next
            /\ depth' = depth + 1
            /\ pc' = "while"
            /\ UNCHANGED <<affected, next, expansions>>
       ELSE /\ to_process' = Tail(to_process)
            /\ UNCHANGED <<depth, pc>>
            /\ affected' = affected \cup {Head(to_process)}
            /\ IF Head(to_process) \in DOMAIN dependents
               THEN /\ \E order \in Perms(dependents[Head(to_process)]) : next' = next \o order
                    /\ expansions' = MapInsert(expansions, Head(to_process),
                                               IF Head(to_process) \in DOMAIN expansions
                                               THEN expansions[Head(to_process)] + 1 ELSE 1)
               ELSE UNCHANGED <<next, expansions>>
    /\ UNCHANGED <<file_path, max_depth>>
    /\ UNCHANGED <<disk, workspace_path, indexVars, graphVars, result, lastPass, prevPass,
                   edits, passes, searchVars, concVars>>

\* one round of the for loop, or its end: to_process = next; depth += 1
ScopeFor ==
    /\ pc = "for"
    /\ IF to_process = <<>>
       THEN /\ to_process' = next
            /\ depth' = depth + 1
            /\ pc' = "while"
            /\ UNCHANGED <<affected, next, expansions>>
       ELSE /\ to_process' = Tail(to_process)
            /\ UNCHANGED <<depth, pc>>
            /\ IF Head(to_process) \notin affected
               THEN /\ affected' = affected \cup {Head(to_process)}
                    /\ IF Head(to_process) \in DOMAIN dependents
                       THEN /\ \E order \in Perms(dependents[Head(to_process)]) :
                                   next' = next \o order
                            /\ expansions' = MapInsert(expansions, Head(to_process),
                                                       IF Head(to_process) \in DOMAIN expansions
                                                       THEN expansions[Head(to_process)] + 1 ELSE 1)
                       ELSE UNCHANGED <<next, expansions>>
               ELSE UNCHANGED <<affected, next, expansions>>
    /\ UNCHANGED <<file_path, max_depth>>
    /\ UNCHANGED <<disk, workspace_path, indexVars, graphVars, result, lastPass, prevPass,
                   edits, passes, searchVars, concVars>>

\* the files of the graphs the traversal is run on, and a path no graph knows
ScopeNodes == {PathA, PathB, PathC}

\* every reverse map over these files: a key is present only with a dependent
ReverseGraphs ==
    UNION {[keys -> SUBSET ScopeNodes \ {{}}] : keys \in SUBSET ScopeNodes}

ScopeStarts == {PathA, PathX}

InitImpact ==
    /\ disk = FullDisk
    /\ workspace_path = WorkspaceW
    /\ files = EmptyMap
    /\ content_index = EmptyMap
    /\ total_lines = 0
    /\ dependencies = EmptyMap
    /\ dependents \in ReverseGraphs
    /\ symbols = EmptyMap
    /\ result = NoResult
    /\ lastPass = NoPass
    /\ prevPass = NoPass
    /\ edits = 0
    /\ passes = 0
    /\ \E f \in ScopeStarts, limit \in 0..MaxDepth : ScopeBegin(f, limit)
    /\ SearchIdle
    /\ ConcIdle

NextImpact == ScopeWhile \/ ScopeFor

SpecImpact == InitImpact /\ [][NextImpact]_vars /\ WF_vars(NextImpact)

\* the step-by-step run returns what the function returns
ScopeRunAgrees == pc = "done" => affected = get_impact_scope(dependents, file_path, max_depth)

\* C4: impact_scope(f, 0) is exactly {f}: the start file is in the result even
\* when max_depth is 0.
C4_DepthZeroIsStartFile == (pc = "done" /\ max_depth = 0) => affected = {file_path}

\* C5: impact_scope is monotone in depth: impact_scope(f, N) is a subset of
\* impact_scope(f, N + 1) for every graph, every f and every N >= 0.
C5_MonotoneInDepth ==
    \A n \in 0..MaxDepth :
        get_impact_scope(dependents, file_path, n) \subseteq
            get_impact_scope(dependents, file_path, n + 1)

\* a graph with a cycle on which a deeper traversal reaches strictly more
C5_Witness ==
    /\ pc = "done"
    /\ file_path \in DOMAIN dependents
    /\ \E g \in dependents[file_path] : g # file_path /\ g \in DOMAIN dependents /\ file_path \in dependents[g]
    /\ get_impact_scope(dependents, file_path, 1) # get_impact_scope(dependents, file_path, 2)
    /\ get_impact_scope(dependents, file_path, 2) # get_impact_scope(dependents, file_path, 3)

\* the files at most n reverse edges away from f, f itself included
RECURSIVE WithinHops(_, _, _)
WithinHops(rev, f, n) ==
    IF n = 0 THEN {f}
    ELSE LET near == WithinHops(rev, f, n - 1)
         IN near \cup UNION {rev[g] : g \in near \cap DOMAIN rev}

\* C17: impact_scope(path, max_depth) is the start file together with every file that
\* reaches it through at most max_depth reverse edges: with max_depth = 1 the start file
\* and its direct dependents.
C17_ScopeIsWithinMaxDepthHops ==
    (pc = "done" /\ max_depth >= 1) =>
        affected = WithinHops(dependents, file_path, max_depth)

\* what the loop returns instead: nothing for max_depth = 0, and otherwise the files at
\* most max_depth - 1 reverse edges away
ScopeStopsOneHopShort ==
    pc = "done" =>
        affected = IF max_depth = 0 THEN {}
                   ELSE WithinHops(dependents, file_path, max_depth - 1)

\* the dependents of no file are read twice, and the loop runs at most once per
\* file found plus once more, whatever max_depth is
ExpandsOnce ==
    /\ \A f \in DOMAIN expansions : expansions[f] <= 1
    /\ depth <= Cardinality(affected) + 1

\* C6: the traversal is cycle-safe: on every reverse map, cycles and self-loops
\* included, it reads the dependents of each file at most once, and it
\* terminates for every max_depth.
C6_CycleSafeAndTerminates == []ExpandsOnce /\ <>(pc = "done")

\* a run over a cycle and a self-loop that ended before max_depth was used up
C6_Witness ==
    /\ pc = "done"
    /\ depth < max_depth
    /\ file_path \in DOMAIN dependents
    /\ file_path \in dependents[file_path]
    /\ \E g \in affected \ {file_path} : g \in DOMAIN dependents /\ file_path \in dependents[g]
    /\ Cardinality(affected) = 3

-----------------------------------------------------------------------------
(* FileIndex::search *)

ScoreExact == 100

ScoreName == 50

ScorePath == 25

ScoreWordInName == 10

ScoreWordInPath == 5

MaxResults == 50

\* the for loop over query_words
RECURSIVE word_score(_, _, _)
word_score(name_lower, path_lower, words) ==
    IF words = <<>> THEN 0
    ELSE (IF contains(name_lower, Head(words)) THEN ScoreWordInName ELSE 0)
         + (IF contains(path_lower, Head(words)) THEN ScoreWordInPath ELSE 0)
         + word_score(name_lower, path_lower, Tail(words))

\* a score that adds the per-word sum on top of whichever tier matched
file_score_adds_words(info, q) ==
    LET query_lower == to_lowercase(q)
        query_words == split_whitespace(query_lower)
        name_lower == to_lowercase(info.name)
        path_lower == to_lowercase(info.path)
    IN (IF name_lower = query_lower THEN ScoreExact
        ELSE IF contains(name_lower, query_lower) THEN ScoreName
        ELSE IF contains(path_lower, query_lower) THEN ScorePath
        ELSE 0)
       + word_score(name_lower, path_lower, query_words)

\* the score the closure of filter_map gives a file
file_score(info, q) ==
    LET query_lower == to_lowercase(q)
        query_words == split_whitespace(query_lower)
        name_lower == to_lowercase(info.name)
        path_lower == to_lowercase(info.path)
    IN IF name_lower = query_lower THEN ScoreExact
       ELSE IF contains(name_lower, query_lower) THEN ScoreName
       ELSE IF contains(path_lower, query_lower) THEN ScorePath
       ELSE word_score(name_lower, path_lower, query_words)

FileMatch(info, q) ==
    [path |-> info.path, name |-> info.name, line |-> None, snippet |-> None,
     score |-> file_score(info, q)]

\* results.sort_by(|a, b| b.score.partial_cmp(&a.score)): a stable sort, highest
\* score first; entries of equal score keep the order they had
sort_by_score(rs) ==
    LET before(i) == {j \in 1..Len(rs) :
                        \/ rs[j].score > rs[i].score
                        \/ rs[j].score = rs[i].score /\ j < i}
        place == [i \in 1..Len(rs) |-> Cardinality(before(i)) + 1]
    IN [k \in 1..Len(rs) |-> rs[CHOOSE i \in 1..Len(rs) : place[i] = k]]

\* Vec::truncate
truncate(rs, n) == IF Len(rs) > n THEN SubSeq(rs, 1, n) ELSE rs

\* a search that returns every result it has sorted
search_untruncated(fs, q, order) ==
    LET all == [i \in 1..Len(order) |-> FileMatch(fs[order[i]], q)]
    IN sort_by_score(SelectSeq(all, LAMBDA m : m.score > 0))

\* FileIndex::search; order is the order in which self.files.values() yields the files
search(fs, q, order) ==
    LET all == [i \in 1..Len(order) |-> FileMatch(fs[order[i]], q)]
        results == SelectSeq(all, LAMBDA m : m.score > 0)
    IN truncate(sort_by_score(results), MaxResults)

\* the files that are searched: two workspaces of a few files, or one of many
PathFoo == <<"/","w","/","f","o","o",".","t","s">>

PathBarFoo == <<"/","w","/","b","a","r","f","o","o",".","t","s">>

PathFooMd == <<"/","v","/","F","o","o",".","m","d">>

\* the i-th file of the large workspace
BigPath(i) == <<"/","w","/","f">> \o <<DigitChars[(i \div 10) + 1], DigitChars[(i % 10) + 1]>> \o <<".","t","s">>

\* the files of the large workspace, in one order
BigWalk == [i \in 1..BigCount |-> BigPath(i)]

SearchDisks ==
    {[p \in S |-> TextEmpty] : S \in SUBSET {PathFoo, PathBarFoo, PathFooMd}}
    \cup {[p \in Range(BigWalk) |-> TextEmpty]}

Queries == {<<>>, <<"t","s">>, <<"f","0","1",".","t","s">>, <<"f","o","o">>, <<"F","o","o",".","T","S">>, <<"z","z">>, <<"w"," ","f","1">>, <<"/","w">>, <<"f">>}

\* the orders in which a HashMap may yield its entries: all of them for a small
\* map, some of them for a large one
IterationOrders(keys) ==
    IF Cardinality(keys) <= MaxPermuted THEN Perms(keys)
    ELSE LET s == IF keys \subseteq {BigWalk[i] : i \in 1..Len(BigWalk)}
                  THEN SelectSeq(BigWalk, LAMBDA p : p \in keys)
                  ELSE SetToSeq(keys)
         IN {s, Reverse(s), SubSeq(s, 3, Len(s)) \o SubSeq(s, 1, 2)}

\* search_files
SearchFiles(q) ==
    /\ query' = q
    /\ \E order \in IterationOrders(DOMAIN files) : matches' = search(files, q, order)
    /\ result' = [cmd |-> "search_files", ok |-> TRUE]
    /\ UNCHANGED <<disk, workspace_path, indexVars, graphVars, lastPass, prevPass, edits, passes,
                   scopeVars, concVars>>

\* one order in which WalkDir may yield the entries below root
WalkOf(d, root) ==
    IF Cardinality(DOMAIN d) <= MaxPermuted THEN SetToSeq(WalkDir(d, root))
    ELSE <<root>> \o SelectSeq(BigWalk, LAMBDA p : p \in WalkDir(d, root))

\* the index after both workspaces of d have been opened
IndexOf(d) ==
    index_directory(
        index_directory(EmptyIndex, d, WorkspaceW, WalkOf(d, WorkspaceW)),
        d, WorkspaceV, WalkOf(d, WorkspaceV))

InitSearch ==
    /\ disk \in SearchDisks
    /\ workspace_path = WorkspaceV
    /\ files = IndexOf(disk).files
    /\ content_index = IndexOf(disk).content_index
    /\ total_lines = IndexOf(disk).total_lines
    /\ dependencies = EmptyMap
    /\ dependents = EmptyMap
    /\ symbols = EmptyMap
    /\ result = NoResult
    /\ lastPass = NoPass
    /\ prevPass = NoPass
    /\ edits = 0
    /\ passes = 0
    /\ ScopeIdle
    /\ SearchIdle
    /\ ConcIdle

NextSearch == \E q \in Queries : SearchFiles(q)

SpecSearch == InitSearch /\ [][NextSearch]_vars

Searched == result.cmd = "search_files"

\* the needles of a query: the lower-cased query and each of its words
Needles(q) == {to_lowercase(q)} \cup Range(split_whitespace(to_lowercase(q)))

\* no needle of the query occurs in the name or the path of any indexed file
MatchesNothing(q) ==
    \A p \in DOMAIN files : \A w \in Needles(q) :
        /\ ~contains(to_lowercase(files[p].name), w)
        /\ ~contains(to_lowercase(files[p].path), w)

\* C8: search returns an empty list for the empty query and for any query that
\* matches no indexed file, whatever the index holds.
C8_EmptyOrUnmatchedQueryFindsNothing ==
    (Searched /\ (query = <<>> \/ MatchesNothing(query))) => matches = <<>>

\* C9: the list search returns has at most 50 entries, its scores do not increase
\* from first to last, and no entry has score 0.
C9_CappedSortedNonZero ==
    Searched =>
        /\ Len(matches) <= 50
        /\ \A i, j \in 1..Len(matches) : i < j => matches[i].score >= matches[j].score
        /\ \A i \in 1..Len(matches) : matches[i].score # 0

\* more than 50 files matched with different scores, and 50 were returned
C9_Witness ==
    /\ Searched
    /\ Cardinality({p \in DOMAIN files : file_score(files[p], query) > 0}) > MaxResults
    /\ Len(matches) = MaxResults
    /\ matches[1].score > matches[MaxResults].score

\* the query words found in text, each occurrence in the query counted
WordsFound(text, q) ==
    LET words == split_whitespace(to_lowercase(q))
    IN Cardinality({i \in 1..Len(words) : contains(to_lowercase(text), words[i])})

\* C20: the score of every returned file is that of the first tier that matches: 100 when
\* the lowercased name equals the lowercased query, else 50 when the name contains it, else
\* 25 when the path contains it, else 10 for each query word found in the name plus 5 for
\* each query word found in the path; nothing is added to a 100, a 50 or a 25.
C20_FirstMatchingTierDecidesScore ==
    Searched =>
        \A i \in 1..Len(matches) :
            LET m == matches[i]
                equal == to_lowercase(m.name) = to_lowercase(query)
                in_name == contains(to_lowercase(m.name), to_lowercase(query))
                in_path == contains(to_lowercase(m.path), to_lowercase(query))
            IN /\ equal => m.score = 100
               /\ (~equal /\ in_name) => m.score = 50
               /\ (~equal /\ ~in_name /\ in_path) => m.score = 25
               /\ (~equal /\ ~in_name /\ ~in_path) =>
                     m.score = 10 * WordsFound(m.name, query) + 5 * WordsFound(m.path, query)

\* a search returned an exact match at 100 whose name and path also hold the query word,
\* so that a per-word sum on top would have shown
C20_Witness ==
    /\ Searched
    /\ matches # <<>>
    /\ matches[1].score = 100
    /\ Len(split_whitespace(query)) = 1
    /\ WordsFound(matches[1].name, query) > 0
    /\ WordsFound(matches[1].path, query) > 0

\* C10: with foo.ts and barfoo.ts indexed, search("foo") scores foo.ts 100 as an
\* exact match and barfoo.ts 50 as a substring match, and returns foo.ts first.
C10_FooRanksAboveBarfoo ==
    (Searched /\ query = <<"f","o","o">> /\ {PathFoo, PathBarFoo} \subseteq DOMAIN files) =>
        \E i, j \in 1..Len(matches) :
            /\ i < j
            /\ matches[i].path = PathFoo
            /\ matches[i].score = 100
            /\ matches[j].path = PathBarFoo
            /\ matches[j].score = 50

-----------------------------------------------------------------------------
(* The queries on the index and the graph *)

\* a has_changed that takes a path without a record for unchanged
has_changed_unknown_unchanged(fs, path, new_hash) ==
    IF path \in DOMAIN fs THEN fs[path].hash # new_hash ELSE FALSE

\* FileIndex::has_changed
has_changed(fs, path, new_hash) ==
    IF path \in DOMAIN fs THEN fs[path].hash # new_hash ELSE TRUE

\* a has_changed that remembers the hash it was asked about
HasChangedStoresHash(path, new_hash) ==
    /\ result' = [cmd |-> "has_changed", path |-> path, new_hash |-> new_hash,
                  value |-> has_changed(files, path, new_hash)]
    /\ files' = IF path \in DOMAIN files THEN [files EXCEPT ![path].hash = new_hash] ELSE files
    /\ UNCHANGED <<disk, workspace_path, content_index, total_lines, graphVars, lastPass,
                   prevPass, edits, passes, scopeVars, searchVars, concVars>>

HasChanged(path, new_hash) ==
    /\ result' = [cmd |-> "has_changed", path |-> path, new_hash |-> new_hash,
                  value |-> has_changed(files, path, new_hash)]
    /\ UNCHANGED <<disk, workspace_path, indexVars, graphVars, lastPass, prevPass, edits, passes,
                   scopeVars, searchVars, concVars>>

\* get_dependencies: the set collected into a Vec, in the order the HashSet yields it
GetDependencies(f) ==
    /\ \E value \in Perms(get_dependencies(dependencies, f)) :
         result' = [cmd |-> "get_dependencies", file_path |-> f, value |-> value]
    /\ UNCHANGED <<disk, workspace_path, indexVars, graphVars, lastPass, prevPass, edits, passes,
                   scopeVars, searchVars, concVars>>

\* get_dependents
GetDependents(f) ==
    /\ \E value \in Perms(get_dependents(dependents, f)) :
         result' = [cmd |-> "get_dependents", file_path |-> f, value |-> value]
    /\ UNCHANGED <<disk, workspace_path, indexVars, graphVars, lastPass, prevPass, edits, passes,
                   scopeVars, searchVars, concVars>>

\* CodeGraph::find_symbol
FindSymbol(name) ==
    /\ result' = [cmd |-> "find_symbol", name |-> name, value |-> find_symbol(symbols, name)]
    /\ UNCHANGED <<disk, workspace_path, indexVars, graphVars, lastPass, prevPass, edits, passes,
                   scopeVars, searchVars, concVars>>

\* FileIndex::files_by_language
files_by_language(fs) ==
    [lang \in {fs[p].language : p \in DOMAIN fs} |->
        Cardinality({p \in DOMAIN fs : fs[p].language = lang})]

FilesByLanguage ==
    /\ result' = [cmd |-> "files_by_language", value |-> files_by_language(files)]
    /\ UNCHANGED <<disk, workspace_path, indexVars, graphVars, lastPass, prevPass, edits, passes,
                   scopeVars, searchVars, concVars>>

\* CodeGraph::get_impact_scope, from call to return
GetImpactScope(f, limit) ==
    /\ result' = [cmd |-> "get_impact_scope", file_path |-> f, max_depth |-> limit,
                  value |-> get_impact_scope(dependents, f, limit)]
    /\ UNCHANGED <<disk, workspace_path, indexVars, graphVars, lastPass, prevPass, edits, passes,
                   scopeVars, searchVars, concVars>>

\* get_workspace_stats, from call to return
GetWorkspaceStats ==
    /\ result' = [cmd |-> "get_workspace_stats", total_files |-> file_count(files),
                  total_lines |-> total_lines, by_language |-> files_by_language(files),
                  dependency_count |-> edge_count(dependencies)]
    /\ UNCHANGED <<disk, workspace_path, indexVars, graphVars, lastPass, prevPass, edits, passes,
                   scopeVars, searchVars, concVars>>

\* the keys that are asked for: files that are indexed, files that are not, an
\* import that is no file, and a symbol name that is exported and one that is not
QueryKeys == Paths \cup {PathX, <<"r","e","a","c","t">>, <<"/","w","/",".","/","b",".","t","s">>}

QueryNames == {<<"f">>, <<"g">>}

NextQuery ==
    \/ \E path \in Roots : OpenWorkspace(path)
    \/ \E p \in QueryKeys : \E c \in UNION {ContentsOf(q) : q \in Paths} :
          HasChanged(p, sha256_hex(IF c.utf8 THEN c.lines ELSE <<>>))
    \/ \E f \in QueryKeys : GetDependencies(f)
    \/ \E f \in QueryKeys : GetDependents(f)
    \/ \E name \in QueryNames : FindSymbol(name)

SpecQuery == Init /\ [][NextQuery]_vars

\* index passes and every query of the index and the graph
NextReadOnly ==
    \/ \E path \in Roots : OpenWorkspace(path)
    \/ SearchFiles(<<"t","s">>)
    \/ \E f \in {PathA, PathX} : GetDependencies(f)
    \/ \E f \in {PathB, PathX} : GetDependents(f)
    \/ \E f \in {PathA, PathX} : GetImpactScope(f, 2)
    \/ FindSymbol(<<"f">>)
    \/ \E p \in {PathA, PathX} : \E c \in {TextEmpty, TextImportB} : HasChanged(p, sha256_hex(c.lines))
    \/ FilesByLanguage
    \/ GetWorkspaceStats

SpecReadOnly == Init /\ [][NextReadOnly]_vars

\* the declarations of name in the files a pass over root analyzes
Declared(root, name) ==
    UNION {{<<p, n>> : n \in {k \in 1..Len(analyze_file(disk, p).syms) :
                                 analyze_file(disk, p).syms[k].name = name}} :
              p \in {q \in analyze_candidates(disk, root) : can_read(disk, q)}}

\* C22: a pass appends to the list under each symbol name one record for every declaration
\* of that name in the files it merges and removes or merges nothing: what find_symbol
\* returned before is the beginning of what it returns afterwards, and the records of a file
\* merged again are in the list once more.
C22_SymbolsAreAppendedNotDeduplicated ==
    [][(passes' = passes + 1 /\ result'.ok) =>
          \A name \in DOMAIN symbols \cup DOMAIN symbols' \cup QueryNames :
              LET old == find_symbol(symbols, name)
                  new == find_symbol(symbols', name)
              IN /\ Len(new) = Len(old) + Cardinality(Declared(result'.path, name))
                 /\ SubSeq(new, 1, Len(old)) = old
                 /\ \A n \in Len(old) + 1..Len(new) :
                       \E d \in Declared(result'.path, name) :
                           new[n] = analyze_file(disk, d[1]).syms[d[2]]]_vars

\* find_symbol returned the one declaration of f twice, after c.js was merged twice
C22_Witness ==
    /\ result.cmd = "find_symbol"
    /\ Len(result.value) = 2
    /\ result.value[1] = result.value[2]
    /\ result.value[1].file = PathC

QueryCommands ==
    {"search_files", "get_dependencies", "get_dependents", "get_impact_scope", "find_symbol",
     "has_changed", "files_by_language", "get_workspace_stats"}

\* C23: the queries are read-only: a step in which search, get_dependencies, get_dependents,
\* get_impact_scope, find_symbol, has_changed, files_by_language or get_workspace_stats
\* returns leaves the forward map, the reverse map, the symbol table, the file records, the
\* word index and total_lines as they were.
C23_QueriesAreReadOnly ==
    [][(result'.cmd \in QueryCommands /\ passes' = passes) =>
          UNCHANGED <<dependencies, dependents, symbols, files, content_index, total_lines>>]_vars

\* a search has returned matches and get_workspace_stats has then run, on an index and a
\* graph that hold something
C23_Witness ==
    /\ result.cmd = "get_workspace_stats"
    /\ result.total_files > 0
    /\ result.dependency_count > 0
    /\ matches # <<>>

\* C15: a query for a key the graph has no entry for answers with an empty collection and
\* no error: get_dependencies for a path that is no key of the forward map and
\* get_dependents for a path that is no key of the reverse map return an empty list,
\* find_symbol for a name that is no key of the symbol table returns an empty list.
C15_UnknownKeyYieldsEmpty ==
    /\ (result.cmd = "get_dependencies" /\ result.file_path \notin DOMAIN dependencies)
          => result.value = <<>>
    /\ (result.cmd = "get_dependents" /\ result.file_path \notin DOMAIN dependents)
          => result.value = <<>>
    /\ (result.cmd = "find_symbol" /\ result.name \notin DOMAIN symbols)
          => result.value = <<>>

\* get_dependents was asked about a path nothing imports, in a graph that has edges
C15_Witness ==
    /\ result.cmd = "get_dependents"
    /\ result.file_path = PathX
    /\ PathX \notin DOMAIN dependents
    /\ DOMAIN dependents # {}
    /\ result.value = <<>>

\* C11: has_changed(path, newHash) is true exactly when the index has no record
\* for path or the stored hash differs from newHash, and false when a record
\* exists whose hash equals newHash.
C11_HasChangedIffUnknownOrDifferent ==
    result.cmd = "has_changed" =>
        /\ (result.path \notin DOMAIN files) => result.value
        /\ (result.path \in DOMAIN files) =>
               (result.value <=> files[result.path].hash # result.new_hash)

\* has_changed answered false for an indexed file whose hash was given, and the
\* index holds other files it would answer true for
C11_Witness ==
    /\ result.cmd = "has_changed"
    /\ result.path \in DOMAIN files
    /\ files[result.path].hash = result.new_hash
    /\ ~result.value
    /\ \E p \in DOMAIN files : files[p].hash # result.new_hash

-----------------------------------------------------------------------------
(* The commands of main.rs running concurrently on the two mutexes *)

\* a get_workspace_stats that locks the graph before the index
lock_order_stats_reversed(cmd) ==
    CASE cmd = "open_workspace" -> <<"file_index", "code_graph">>
      [] cmd = "search_files" -> <<"file_index">>
      [] cmd = "get_dependencies" -> <<"code_graph">>
      [] cmd = "get_dependents" -> <<"code_graph">>
      [] cmd = "get_workspace_stats" -> <<"code_graph", "file_index">>

\* main.rs 40-110: the mutexes a command locks, in the order it locks them
lock_order(cmd) ==
    CASE cmd = "open_workspace" -> <<"file_index", "code_graph">>
      [] cmd = "search_files" -> <<"file_index">>
      [] cmd = "get_dependencies" -> <<"code_graph">>
      [] cmd = "get_dependents" -> <<"code_graph">>
      [] cmd = "get_workspace_stats" -> <<"file_index", "code_graph">>

\* where a command goes once it holds the mutex m: open_workspace into the pass on the
\* structure, a query to its next lock() or, after the last one, to its reads
after_lock(cmd, m) ==
    IF cmd = "open_workspace" THEN (IF m = "file_index" THEN "index_directory" ELSE "analyze_workspace")
    ELSE LET order == lock_order(cmd)
             i == CHOOSE k \in 1..Len(order) : order[k] = m
         IN IF i = Len(order) THEN "read" ELSE order[i + 1]

ConcCommands ==
    {<<"open_workspace", WorkspaceW>>, <<"open_workspace", WorkspaceV>>,
     <<"open_workspace", PathX>>, <<"search_files", <<"t","s">>>>,
     <<"get_dependencies", PathA>>, <<"get_dependents", <<"r","e","a","c","t">>>>,
     <<"get_workspace_stats", <<>>>>}

Release(t) == [m \in DOMAIN mutex |-> IF mutex[m] = t THEN 0 ELSE mutex[m]]

\* a command is invoked; open_workspace's lines 41-48 run before it locks the index
Begin(t, cmd, arg) ==
    /\ started < MaxCommands
    /\ task[t].cmd = "idle"
    /\ started' = started + 1
    /\ IF cmd = "open_workspace" /\ (~exists(disk, arg) \/ ~is_dir(disk, arg))
       THEN /\ result' = [cmd |-> cmd, ok |-> FALSE, err |-> "Invalid workspace path"]
            /\ UNCHANGED <<workspace_path, task>>
       ELSE /\ workspace_path' = IF cmd = "open_workspace" THEN arg ELSE workspace_path
            /\ task' = [task EXCEPT ![t] = [cmd |-> cmd, pc |-> lock_order(cmd)[1], arg |-> arg,
                                           pending |-> <<>>]]
            /\ UNCHANGED result
    /\ UNCHANGED <<disk, indexVars, graphVars, lastPass, prevPass, edits, passes, scopeVars,
                   searchVars, mutex>>

\* a Mutex::lock that does not wait for the holder
LockWithoutWaiting(t) ==
    /\ task[t].pc \in DOMAIN mutex
    /\ mutex' = [mutex EXCEPT ![task[t].pc] = t]
    /\ task' = [task EXCEPT ![t].pc = after_lock(task[t].cmd, task[t].pc)]
    /\ UNCHANGED <<disk, workspace_path, indexVars, graphVars, result, lastPass, prevPass, edits,
                   passes, scopeVars, searchVars, started>>

\* state.file_index.lock() / state.code_graph.lock(): blocks while another task holds the mutex
Lock(t) ==
    /\ task[t].pc \in DOMAIN mutex
    /\ mutex[task[t].pc] = 0
    /\ mutex' = [mutex EXCEPT ![task[t].pc] = t]
    /\ task' = [task EXCEPT ![t].pc = after_lock(task[t].cmd, task[t].pc)]
    /\ UNCHANGED <<disk, workspace_path, indexVars, graphVars, result, lastPass, prevPass, edits,
                   passes, scopeVars, searchVars, started>>

\* file_indexer.rs 52-70: walk and index in parallel, then total_lines = 0
OpenCollect(t) ==
    /\ task[t].pc = "index_directory"
    /\ \E walk \in WalkOrders(disk, task[t].arg) :
          task' = [task EXCEPT ![t].pc = "store",
                               ![t].pending = collect_indexed(disk, task[t].arg, walk)]
    /\ total_lines' = reset_total_lines(FileIndexNow)
    /\ UNCHANGED <<disk, workspace_path, files, content_index, graphVars, result, lastPass,
                   prevPass, edits, passes, scopeVars, searchVars, mutex, started>>

\* an open_workspace that drops the guard of the index as soon as index_directory is done
OpenStoreDropsGuard(t) ==
    /\ task[t].pc = "store"
    /\ IF task[t].pending = <<>>
       THEN /\ task' = [task EXCEPT ![t].pc = "code_graph"]
            /\ mutex' = Release(t)
            /\ UNCHANGED indexVars
       ELSE \E info \in {Head(task[t].pending)} :
            \E one \in {store_indexed(FileIndexNow, <<info>>)} :
              /\ total_lines' = total_lines + info.lines
              /\ content_index' = one.content_index
              /\ files' = one.files
              /\ task' = [task EXCEPT ![t].pending = Tail(task[t].pending)]
              /\ UNCHANGED mutex
    /\ UNCHANGED <<disk, workspace_path, graphVars, result, lastPass, prevPass, edits, passes,
                   scopeVars, searchVars, started>>

\* file_indexer.rs 71-83: one turn of `for info in indexed`, main.rs 52-55 after the last one
OpenStore(t) ==
    /\ task[t].pc = "store"
    /\ IF task[t].pending = <<>>
       THEN /\ task' = [task EXCEPT ![t].pc = "code_graph"]
            /\ UNCHANGED indexVars
       ELSE \E info \in {Head(task[t].pending)} :
            \E one \in {store_indexed(FileIndexNow, <<info>>)} :
              /\ total_lines' = total_lines + info.lines
              /\ content_index' = one.content_index
              /\ files' = one.files
              /\ task' = [task EXCEPT ![t].pending = Tail(task[t].pending)]
    /\ UNCHANGED <<disk, workspace_path, graphVars, result, lastPass, prevPass, edits, passes,
                   scopeVars, searchVars, mutex, started>>

\* cascade.rs 57-76: walk and analyze in parallel
OpenAnalyze(t) ==
    /\ task[t].pc = "analyze_workspace"
    /\ \E walk \in WalkOrders(disk, task[t].arg) :
          task' = [task EXCEPT ![t].pc = "merge",
                               ![t].pending = collect_results(disk, task[t].arg, walk)]
    /\ UNCHANGED <<disk, workspace_path, indexVars, graphVars, result, lastPass, prevPass, edits,
                   passes, scopeVars, searchVars, mutex, started>>

\* cascade.rs 79-98: one turn of `for result in results`
OpenMerge(t) ==
    /\ task[t].pc = "merge"
    /\ task[t].pending # <<>>
    /\ \E graph \in {merge_results(CodeGraphNow, <<Head(task[t].pending)>>)} :
          /\ dependencies' = graph.dependencies
          /\ dependents' = graph.dependents
          /\ symbols' = graph.symbols
    /\ task' = [task EXCEPT ![t].pending = Tail(task[t].pending)]
    /\ UNCHANGED <<disk, workspace_path, indexVars, result, lastPass, prevPass, edits, passes,
                   scopeVars, searchVars, mutex, started>>

\* main.rs 58-62: Ok(WorkspaceInfo); both guards are dropped
OpenReturn(t) ==
    /\ task[t].pc = "merge"
    /\ task[t].pending = <<>>
    /\ result' = [cmd |-> "open_workspace", ok |-> TRUE, path |-> task[t].arg,
                  file_count |-> file_count(files), indexed |-> TRUE]
    /\ lastPass' = PassLog(disk, task[t].arg, FileIndexNow, CodeGraphNow)
    /\ prevPass' = lastPass
    /\ mutex' = Release(t)
    /\ task' = [task EXCEPT ![t] = NoTask]
    /\ UNCHANGED <<disk, workspace_path, indexVars, graphVars, edits, passes,
                   scopeVars, searchVars, started>>

\* main.rs 69-71, 76-78, 83-85, 103-108: the query reads under its guards and returns
QueryRead(t) ==
    /\ task[t].pc = "read"
    /\ CASE task[t].cmd = "search_files" ->
              /\ query' = task[t].arg
              /\ \E order \in IterationOrders(DOMAIN files) :
                    matches' = search(files, task[t].arg, order)
              /\ result' = [cmd |-> "search_files", ok |-> TRUE]
         [] task[t].cmd = "get_dependencies" ->
              /\ result' = [cmd |-> "get_dependencies", file_path |-> task[t].arg,
                            value |-> get_dependencies(dependencies, task[t].arg)]
              /\ UNCHANGED searchVars
         [] task[t].cmd = "get_dependents" ->
              /\ result' = [cmd |-> "get_dependents", file_path |-> task[t].arg,
                            value |-> get_dependents(dependents, task[t].arg)]
              /\ UNCHANGED searchVars
         [] task[t].cmd = "get_workspace_stats" ->
              /\ result' = [cmd |-> "get_workspace_stats", total_files |-> file_count(files),
                            total_lines |-> total_lines,
                            by_language |-> files_by_language(files),
                            dependency_count |-> edge_count(dependencies)]
              /\ UNCHANGED searchVars
    /\ mutex' = Release(t)
    /\ task' = [task EXCEPT ![t] = NoTask]
    /\ UNCHANGED <<disk, workspace_path, indexVars, graphVars, lastPass, prevPass, edits, passes,
                   scopeVars, started>>

InitConc == Init /\ disk = FullDisk

NextConc ==
    \E t \in Tasks :
        \/ \E c \in ConcCommands : Begin(t, c[1], c[2])
        \/ Lock(t)
        \/ OpenCollect(t)
        \/ OpenStore(t)
        \/ OpenAnalyze(t)
        \/ OpenMerge(t)
        \/ OpenReturn(t)
        \/ QueryRead(t)

SpecConc == InitConc /\ [][NextConc]_vars

\* the steps of a command that has been invoked
Run(t) ==
    \/ Lock(t)
    \/ OpenCollect(t)
    \/ OpenStore(t)
    \/ OpenAnalyze(t)
    \/ OpenMerge(t)
    \/ OpenReturn(t)
    \/ QueryRead(t)

\* ENABLED <<Run(t)>>_vars: the command of task t is not blocked in lock()
RunEnabled(t) ==
    /\ task[t].cmd # "idle"
    /\ task[t].pc \in DOMAIN mutex => mutex[task[t].pc] = 0

\* the thread pool keeps running every command that is not blocked: weak fairness of
\* Run(t), that is WF_vars(Run(t)) with its ENABLED <<Run(t)>>_vars written as RunEnabled(t)
SpecConcFair ==
    SpecConc /\ \A t \in Tasks : ([]<>(~RunEnabled(t)) \/ []<><<Run(t)>>_vars)

\* the structures a pass of task p is in the middle of rewriting
Merging(p) ==
    IF task[p].cmd # "open_workspace" THEN {}
    ELSE IF task[p].pc \in {"index_directory", "store"} THEN {"file_index"}
    ELSE IF task[p].pc \in {"analyze_workspace", "merge"} THEN {"code_graph"}
    ELSE {}

\* C14: a query (search_files, get_dependencies, get_dependents, get_workspace_stats) that is
\* about to read under its guards reads no structure that a pass of another task is in the
\* middle of indexing or merging: it holds every mutex it reads under, and no pass is between
\* its lock and its last store on a structure the query reads.
C14_QueriesNeverSeePartialMerge ==
    \A q \in Tasks :
        task[q].pc = "read" =>
            /\ \A i \in 1..Len(lock_order(task[q].cmd)) : mutex[lock_order(task[q].cmd)[i]] = q
            /\ \A p \in Tasks \ {q} :
                  Merging(p) \cap {lock_order(task[q].cmd)[i] :
                                      i \in 1..Len(lock_order(task[q].cmd))} = {}

\* a search waits for the index while the other task's pass has stored some files but not all
C14_Witness ==
    \E q \in Tasks, p \in Tasks :
        /\ task[q].cmd = "search_files"
        /\ task[q].pc = "file_index"
        /\ task[p].cmd = "open_workspace"
        /\ task[p].pc = "store"
        /\ task[p].pending # <<>>
        /\ DOMAIN files # {}

-----------------------------------------------------------------------------
(* The import resolver on its own *)

\* the files the probes of resolve_import may or may not find; /w and /v are directories
ResolveFiles ==
    {<<"/","w","/","b">>, PathB, PathB \o <<"x">>, <<"/","w","/","b",".","j","s">>,
     <<"/","w","/","b",".","j","s","x">>, <<"/","v","/","i","n","d","e","x",".","t","s">>,
     <<"/","v","/","i","n","d","e","x",".","j","s">>}

\* CodeGraph::resolve_import called for an import of /w/a.ts
ResolveImport(import) ==
    /\ result' = [cmd |-> "resolve_import", from_file |-> PathA, import |-> import,
                  value |-> resolve_import(disk, PathA, import)]
    /\ UNCHANGED <<disk, workspace_path, indexVars, graphVars, lastPass, prevPass, edits, passes,
                   scopeVars, searchVars, concVars>>

InitResolve ==
    /\ \E present \in SUBSET ResolveFiles : disk = [p \in present \cup {PathA} |-> TextEmpty]
    /\ workspace_path = None
    /\ files = EmptyMap
    /\ content_index = EmptyMap
    /\ total_lines = 0
    /\ dependencies = EmptyMap
    /\ dependents = EmptyMap
    /\ symbols = EmptyMap
    /\ result = NoResult
    /\ lastPass = NoPass
    /\ prevPass = NoPass
    /\ edits = 0
    /\ passes = 0
    /\ ScopeIdle
    /\ SearchIdle
    /\ ConcIdle

NextResolve ==
    \E import \in {<<".","/","b">>, <<".",".","/","v">>, <<".","/","z">>, <<"r","e","a","c","t">>} :
        ResolveImport(import)

SpecResolve == InitResolve /\ [][NextResolve]_vars

\* C18: for a relative specifier the resolver returns the first candidate, in the order
\* joined path, .ts, .tsx, .js, .jsx, /index.ts, /index.js, that names an existing file
\* (a directory at the joined path is no hit), and the joined path itself when no candidate
\* names a file.
C18_FirstExistingFileWins ==
    (result.cmd = "resolve_import" /\ starts_with(result.import, <<".">>)) =>
        LET joined == join(parent(result.from_file), result.import)
            hits == {i \in 1..Len(ProbeSuffixes) : is_file(disk, joined \o ProbeSuffixes[i])}
        IN result.value = IF hits # {} THEN joined \o ProbeSuffixes[Min(hits)] ELSE joined

\* what holds instead: the same with a directory at the joined path counting as a hit
FirstExistingPathWins ==
    (result.cmd = "resolve_import" /\ starts_with(result.import, <<".">>)) =>
        LET joined == join(parent(result.from_file), result.import)
            hits == {i \in 1..Len(ProbeSuffixes) : exists(disk, joined \o ProbeSuffixes[i])}
        IN /\ result.value = IF hits # {} THEN joined \o ProbeSuffixes[Min(hits)] ELSE joined
           /\ \A i \in hits : \A j \in hits :
                 (result.value = joined \o ProbeSuffixes[i]) => i <= j

-----------------------------------------------------------------------------
(* The path exclusion of the two passes *)

\* source files of /w whose full path contains one of the excluded names
ExcludedFiles ==
    {<<"/","w","/","t","a","r","g","e","t",".","t","s">>,
     <<"/","w","/","n","o","d","e","_","m","o","d","u","l","e","s",".","t","s">>,
     <<"/","w","/","a",".","g","i","t",".","t","s">>}

InitExcluded ==
    /\ \E present \in SUBSET (ExcludedFiles \cup {PathA}) :
       \E text \in {TextEmpty, TextRequireExport} :
          disk = [p \in present |-> text]
    /\ workspace_path = None
    /\ files = EmptyMap
    /\ content_index = EmptyMap
    /\ total_lines = 0
    /\ dependencies = EmptyMap
    /\ dependents = EmptyMap
    /\ symbols = EmptyMap
    /\ result = NoResult
    /\ lastPass = NoPass
    /\ prevPass = NoPass
    /\ edits = 0
    /\ passes = 0
    /\ ScopeIdle
    /\ SearchIdle
    /\ ConcIdle

NextExcluded == OpenWorkspace(WorkspaceW)

SpecExcluded == InitExcluded /\ [][NextExcluded]_vars

\* the paths the exclusion list is about
Excluded(p) == contains(p, NodeModules) \/ contains(p, DotGit) \/ contains(p, Target)

\* C21: after a pass, no file whose full path contains the name of a version-control
\* directory (.git), of a dependency directory (node_modules) or of a build-output
\* directory (target) has a forward entry in the graph or a record in the index.
C21_ExcludedPathsAreSkippedByBothPasses ==
    lastPass.ok =>
        \A p \in DOMAIN dependencies \cup DOMAIN files : ~Excluded(p)

\* what holds instead: the index skips all three names, the graph only .git and
\* node_modules
ExcludedAsFiltered ==
    lastPass.ok =>
        /\ \A p \in DOMAIN files : ~Excluded(p)
        /\ \A p \in DOMAIN dependencies : ~contains(p, NodeModules) /\ ~contains(p, DotGit)


\* C24: the commands cannot deadlock: every mutex is locked in the order file_index before
\* code_graph (the guard of workspace_path is dropped in the statement that takes it), so
\* under every interleaving of open_workspace, search_files, get_dependencies,
\* get_dependents and get_workspace_stats every call that has started returns, as long as
\* every command that can take a step keeps running.
C24_EveryCallCompletes ==
    \A t \in Tasks : (task[t].cmd # "idle") ~> (task[t].cmd = "idle")

\* get_workspace_stats waits for the index while a pass of the other task holds both mutexes
C24_Witness ==
    \E q \in Tasks, p \in Tasks :
        /\ task[q].cmd = "get_workspace_stats"
        /\ task[q].pc = "file_index"
        /\ task[p].cmd = "open_workspace"
        /\ task[p].pc = "merge"
        /\ mutex["file_index"] = p
        /\ mutex["code_graph"] = p

\* what the passes that have returned left behind
Completed ==
    IF lastPass.ok
    THEN [total_files |-> lastPass.file_count, total_lines |-> lastPass.total_lines,
          dependency_count |-> lastPass.edge_count]
    ELSE [total_files |-> 0, total_lines |-> 0, dependency_count |-> 0]

\* C26: get_workspace_stats returns a consistent snapshot: under every interleaving with
\* open_workspace calls, the total_files, total_lines and by_language it returns and the
\* dependency_count it returns are those of the index and of the graph as the passes that
\* have returned left them, never the index of a pass whose graph merge is still to come.
C26_StatsAreOneSnapshot ==
    [][\A t \in Tasks :
          (task[t].cmd = "get_workspace_stats" /\ task[t].pc = "read" /\ task'[t].cmd = "idle") =>
              /\ result'.total_files = Completed.total_files
              /\ result'.total_lines = Completed.total_lines
              /\ result'.dependency_count = Completed.dependency_count
              /\ LET langs == SetToSeq(DOMAIN result'.by_language)
                 IN SumSeq([i \in 1..Len(langs) |-> result'.by_language[langs[i]]])
                       = Completed.total_files
              /\ \A p \in Tasks :
                    task[p].cmd = "open_workspace" => task[p].pc = "file_index"]_vars

\* get_workspace_stats has returned the counts of a completed pass while another
\* open_workspace was waiting for the index
C26_Witness ==
    /\ result.cmd = "get_workspace_stats"
    /\ result.total_files > 0
    /\ result.dependency_count > 0
    /\ \E p \in Tasks : task[p].cmd = "open_workspace" /\ task[p].pc = "file_index"
    /\ mutex["file_index"] = 0
=============================================================================
